---- MODULE Spec2Model ----
(***************************************************************************)
(* A model of examples/soundstream.rs: the foreground App (Game) holding   *)
(* the sending end of a kill channel, and the AppSoundStream audio loop    *)
(* holding the receiving end, polled once per update().                    *)
(***************************************************************************)
EXTENDS Integers, Sequences, FiniteSets, TLC

\* ---------------------------------------------------------------- bounds
MaxLoads  == 2      \* audio loops that can ever be spawned (channel ids)
MaxFrames == 2      \* largest negotiated frame count (settings.frames)
MaxSend   == 3      \* messages a directly held Sender puts on the channel

Streams   == 1..MaxLoads
Samples   == {0, 1}
Keys      == {"Space", "Escape", "Other"}
DtValues  == {0, 5333333}
NoChan    == 0      \* Option::None for a channel end
NoFrame   == <<-1>> \* "no frame yet" for the observers below

Frames(n) == [1..n -> Samples]
Zeros(n)  == [i \in 1..n |-> 0]

\* ------------------------------------------------------------- variables
VARIABLES
    app_pc,        \* foreground: "new" | "running" | "dropped" | "failed"
    kill_chan,     \* App.kill_chan: NoChan or the channel whose Sender it holds
    game_key,      \* last key printed by the game thread ("" before any)
    chan,          \* the channels: [queue, tx (a Sender is alive), rx (Receiver alive)]
    pc,            \* audio loop position: "idle" | "update" | "audio_in" |
                   \*   "audio_out" | "exit" | "done"
    recv_chan,     \* AppSoundStream.kill_chan: NoChan or its channel
    should_exit,   \* AppSoundStream.should_exit
    should_print,  \* AppSoundStream.should_print
    buffer,        \* AppSoundStream.buffer
    frames,        \* settings.frames of the running stream
    output,        \* the driver's output Vec after the last audio_out
    out_len,       \* length of the output Vec the driver handed to the last audio_out
    last_input,    \* argument of the most recent audio_in (NoFrame before any)
    upd,           \* the last update(): [ran, dt, printing, printed]
    tick_log,      \* what the current tick has done so far, in order:
                   \*   "rate", "drain", "in", "out", "exit"
    hist,          \* per loop: [recvd, escaped, spaced, space_odd, upd_after_drop,
                   \*   sent (messages ever put on its channel)]
    ext_sent       \* messages sent by a directly held Sender, in order

vars == << app_pc, kill_chan, game_key, chan, pc, recv_chan, should_exit,
           should_print, buffer, frames, output, out_len, last_input, upd,
           tick_log, hist, ext_sent >>

appVars    == << app_pc, kill_chan, game_key >>
streamVars == << recv_chan, should_exit, should_print, buffer >>
obsVars    == << output, out_len, last_input, upd, tick_log >>

\* ------------------------------------------------------- rate diagnostic
\* An f64 value as the exact number n / d * 10^e (rounding to 53 bits is left out).
Rat(n, d, e) == [n |-> n, d |-> d, e |-> e]

\* `x as f64` of an integer.
F64(i) == Rat(i, 1, 0)

\* The literal 1000000000f64.
Billion == Rat(1, 1, 9)

\* The literal 1000000f64.
Million == Rat(1, 1, 6)

\* a / b and a * b on f64, b nonzero.
FDiv(a, b) == Rat(a.n * b.d, a.d * b.n, a.e - b.e)
FMul(a, b) == Rat(a.n * b.n, a.d * b.d, a.e + b.e)

NoPrint == [kind |-> "none", val |-> F64(0)]
Inf     == [kind |-> "inf",  val |-> F64(0)]
Num(r)  == [kind |-> "num",  val |-> r]

\* The rate with dtsec taken in milliseconds: dt / 1000000f64.
RateHz_Millis(dt, n) ==
    IF dt = 0 THEN Inf
    ELSE LET dtsec == FDiv(F64(dt), Million) IN
         Num(FMul(FDiv(F64(1), dtsec), F64(n)))

\* dtsec = dt as f64 / 1000000000f64; (1f64 / dtsec) * settings.frames as f64.
\* dt = 0 gives dtsec = 0.0, 1/0.0 = +inf and inf * frames = inf.
RateHz(dt, n) ==
    IF dt = 0 THEN Inf
    ELSE LET dtsec == FDiv(F64(dt), Billion) IN
         Num(FMul(FDiv(F64(1), dtsec), F64(n)))

\* What update() prints for the rate: only when should_print.
RatePrinted(print, dt, n) == IF print THEN RateHz(dt, n) ELSE NoPrint

\* ------------------------------------------------------------- channels
NewChan == [queue |-> <<>>, tx |-> TRUE, rx |-> TRUE]
NoUpd   == [ran |-> FALSE, dt |-> 0, printing |-> FALSE, printed |-> NoPrint]
NoHist  == [recvd |-> FALSE, escaped |-> FALSE, spaced |-> FALSE,
            space_odd |-> FALSE, upd_after_drop |-> FALSE, sent |-> 0]

\* Receiver::try_recv: Ok(head) when a message is queued, Err otherwise
\* (Empty, or Disconnected once every Sender is gone and the queue is empty).
TryRecvOk(c) == Len(chan[c].queue) > 0

\* Sender::send returns (): it enqueues when the Receiver is alive and fails the
\* sending task when the Receiver has hung up.
SendOk(c) == chan[c].rx

\* ------------------------------------------------------------------ Init
Init ==
    /\ app_pc = "new"
    /\ kill_chan = NoChan
    /\ game_key = ""
    /\ chan = [s \in Streams |-> [queue |-> <<>>, tx |-> FALSE, rx |-> FALSE]]
    /\ pc = [s \in Streams |-> "idle"]
    /\ recv_chan = [s \in Streams |-> NoChan]
    /\ should_exit = [s \in Streams |-> FALSE]
    /\ should_print = [s \in Streams |-> FALSE]
    /\ buffer = [s \in Streams |-> <<>>]
    /\ frames = [s \in Streams |-> 1]
    /\ output = [s \in Streams |-> NoFrame]
    /\ out_len = [s \in Streams |-> 0]
    /\ last_input = [s \in Streams |-> NoFrame]
    /\ upd = [s \in Streams |-> NoUpd]
    /\ tick_log = [s \in Streams |-> <<>>]
    /\ hist = [s \in Streams |-> NoHist]
    /\ ext_sent = <<>>

\* ------------------------------------------------------ foreground (App)
\* AppSoundStream::new(recv) and the state .run() starts the loop in.
SpawnStream(s, n) ==
    /\ pc' = [pc EXCEPT ![s] = "update"]
    /\ recv_chan' = [recv_chan EXCEPT ![s] = s]
    /\ should_exit' = [should_exit EXCEPT ![s] = FALSE]
    /\ should_print' = [should_print EXCEPT ![s] = FALSE]
    /\ buffer' = [buffer EXCEPT ![s] = <<>>]
    /\ frames' = [frames EXCEPT ![s] = n]

\* App::load: a fresh channel, its Sender stored in kill_chan (dropping the Sender
\* held before, if any), its Receiver moved into a newly spawned audio loop.
Load(s, n) ==
    /\ pc[s] = "idle"
    /\ \A t \in Streams : t < s => pc[t] # "idle"
    /\ chan' = [c \in Streams |->
                  IF c = s THEN NewChan
                  ELSE IF c = kill_chan THEN [chan[c] EXCEPT !.tx = FALSE]
                  ELSE chan[c]]
    /\ kill_chan' = s
    /\ SpawnStream(s, n)
    /\ app_pc' = "running"
    /\ UNCHANGED << game_key, obsVars, hist, ext_sent >>

\* Game::run calls load once, before the event loop.
GameLoad == \E n \in 1..MaxFrames : app_pc = "new" /\ Load(1, n)

\* App::key_press that flips the stream's should_print itself on Space, as a
\* flag shared between the two threads.
AppKeyPress_SharedFlag ==
    /\ app_pc = "running"
    /\ \E k \in Keys :
          /\ game_key' = k
          /\ should_print' = IF k = "Space" /\ kill_chan # NoChan
                             THEN [should_print EXCEPT ![kill_chan] = ~@]
                             ELSE should_print
    /\ UNCHANGED << app_pc, kill_chan, chan, pc, recv_chan, should_exit, buffer,
                    frames, obsVars, hist, ext_sent >>

\* App::key_press that sends the kill message on Escape.
AppKeyPress_SendsStop ==
    /\ app_pc = "running"
    /\ \E k \in Keys :
          /\ game_key' = k
          /\ IF k = "Escape" /\ kill_chan # NoChan /\ SendOk(kill_chan)
             THEN /\ chan' = [chan EXCEPT ![kill_chan].queue = Append(@, TRUE)]
                  /\ hist' = [hist EXCEPT ![kill_chan].sent = @ + 1]
             ELSE UNCHANGED << chan, hist >>
    /\ UNCHANGED << app_pc, kill_chan, pc, streamVars, frames, obsVars,
                    ext_sent >>

\* App::key_press: prints the key, nothing else.
AppKeyPress ==
    /\ app_pc = "running"
    /\ \E k \in Keys : game_key' = k
    /\ UNCHANGED << app_pc, kill_chan, chan, pc, streamVars, frames, obsVars,
                    hist, ext_sent >>

\* Drop for App without the send: the Sender is only released.
AppDrop_NoSend ==
    /\ app_pc \in {"new", "running"}
    /\ app_pc' = "dropped"
    /\ chan' = IF kill_chan = NoChan THEN chan
               ELSE [chan EXCEPT ![kill_chan].tx = FALSE]
    /\ UNCHANGED << kill_chan, game_key, pc, streamVars, frames, obsVars, hist,
                    ext_sent >>

\* Drop for App: clone the Sender and send(true); the App's fields (the Sender)
\* are released with it. On a hung-up Receiver send fails the task.
AppDrop ==
    /\ app_pc \in {"new", "running"}
    /\ IF kill_chan = NoChan
       THEN /\ app_pc' = "dropped"
            /\ chan' = chan
            /\ hist' = hist
       ELSE IF SendOk(kill_chan)
       THEN /\ app_pc' = "dropped"
            /\ chan' = [chan EXCEPT ![kill_chan] =
                          [@ EXCEPT !.queue = Append(@, TRUE), !.tx = FALSE]]
            /\ hist' = [hist EXCEPT ![kill_chan].sent = @ + 1]
       ELSE /\ app_pc' = "failed"
            /\ chan' = [chan EXCEPT ![kill_chan] = [@ EXCEPT !.tx = FALSE]]
            /\ hist' = hist
    /\ UNCHANGED << kill_chan, game_key, pc, streamVars, frames, obsVars,
                    ext_sent >>

\* ---------------------------------------------- audio loop (AppSoundStream)
Running(s) == pc[s] \in {"update", "audio_in", "audio_out", "exit"}

\* update() that polls the channel before it prints the rate line.
UpdateLog_DrainFirst(print) == <<"drain">> \o (IF print THEN <<"rate">> ELSE <<>>)

\* The order of update()'s two parts: the rate line, when should_print, and
\* then the poll of the channel.
UpdateLog(print) == (IF print THEN <<"rate">> ELSE <<>>) \o <<"drain">>

\* update() with a blocking recv(): it waits until a message is queued.
Update_Blocking(s, dt) ==
    /\ pc[s] = "update"
    /\ recv_chan[s] # NoChan
    /\ TryRecvOk(recv_chan[s])
    /\ upd' = [upd EXCEPT ![s] =
                 [ran |-> TRUE, dt |-> dt, printing |-> should_print[s],
                  printed |-> RatePrinted(should_print[s], dt, frames[s])]]
    /\ should_exit' = [should_exit EXCEPT ![s] = TRUE]
    /\ chan' = [chan EXCEPT ![recv_chan[s]].queue = Tail(@)]
    /\ hist' = [hist EXCEPT ![s] =
                 [@ EXCEPT !.recvd = TRUE,
                           !.upd_after_drop = @ \/ (app_pc = "dropped")]]
    /\ tick_log' = [tick_log EXCEPT ![s] = UpdateLog(should_print[s])]
    /\ pc' = [pc EXCEPT ![s] = "audio_in"]
    /\ UNCHANGED << appVars, recv_chan, should_print, buffer, frames, output,
                    out_len, last_input, ext_sent >>

\* update() that takes the message's payload as the new should_exit.
Update_PayloadStop(s, dt) ==
    /\ pc[s] = "update"
    /\ LET got == recv_chan[s] # NoChan /\ TryRecvOk(recv_chan[s]) IN
       /\ upd' = [upd EXCEPT ![s] =
                    [ran |-> TRUE, dt |-> dt, printing |-> should_print[s],
                     printed |-> RatePrinted(should_print[s], dt, frames[s])]]
       /\ should_exit' = [should_exit EXCEPT ![s] =
                            IF got THEN Head(chan[recv_chan[s]].queue) ELSE @]
       /\ chan' = IF got
                  THEN [chan EXCEPT ![recv_chan[s]].queue = Tail(@)]
                  ELSE chan
       /\ hist' = [hist EXCEPT ![s] =
                    [@ EXCEPT !.recvd = @ \/ got,
                              !.upd_after_drop = @ \/ (app_pc = "dropped")]]
    /\ tick_log' = [tick_log EXCEPT ![s] = UpdateLog(should_print[s])]
    /\ pc' = [pc EXCEPT ![s] = "audio_in"]
    /\ UNCHANGED << appVars, recv_chan, should_print, buffer, frames, output,
                    out_len, last_input, ext_sent >>

\* AppSoundStream::update: the rate line first, then one try_recv.
Update(s, dt) ==
    /\ pc[s] = "update"
    /\ LET got == recv_chan[s] # NoChan /\ TryRecvOk(recv_chan[s]) IN
       /\ upd' = [upd EXCEPT ![s] =
                    [ran |-> TRUE, dt |-> dt, printing |-> should_print[s],
                     printed |-> RatePrinted(should_print[s], dt, frames[s])]]
       /\ should_exit' = [should_exit EXCEPT ![s] = IF got THEN TRUE ELSE @]
       /\ chan' = IF got
                  THEN [chan EXCEPT ![recv_chan[s]].queue = Tail(@)]
                  ELSE chan
       /\ hist' = [hist EXCEPT ![s] =
                    [@ EXCEPT !.recvd = @ \/ got,
                              !.upd_after_drop = @ \/ (app_pc = "dropped")]]
    /\ tick_log' = [tick_log EXCEPT ![s] = UpdateLog(should_print[s])]
    /\ pc' = [pc EXCEPT ![s] = "audio_in"]
    /\ UNCHANGED << appVars, recv_chan, should_print, buffer, frames, output,
                    out_len, last_input, ext_sent >>

\* AppSoundStream::audio_in: buffer = input.clone().
AudioIn(s, input) ==
    /\ pc[s] = "audio_in"
    /\ buffer' = [buffer EXCEPT ![s] = input]
    /\ last_input' = [last_input EXCEPT ![s] = input]
    /\ tick_log' = [tick_log EXCEPT ![s] = Append(@, "in")]
    /\ pc' = [pc EXCEPT ![s] = "audio_out"]
    /\ UNCHANGED << appVars, chan, recv_chan, should_exit, should_print, frames,
                    output, out_len, upd, hist, ext_sent >>

\* The driver has no input frame to deliver in this tick.
NoInput(s) ==
    /\ pc[s] = "audio_in"
    /\ pc' = [pc EXCEPT ![s] = "audio_out"]
    /\ UNCHANGED << appVars, chan, streamVars, frames, obsVars, hist, ext_sent >>

\* audio_out that leaves the driver's frame as handed in.
AudioOut_Untouched(s, out) ==
    /\ pc[s] = "audio_out"
    /\ output' = [output EXCEPT ![s] = out]
    /\ out_len' = [out_len EXCEPT ![s] = Len(out)]
    /\ tick_log' = [tick_log EXCEPT ![s] = Append(@, "out")]
    /\ pc' = [pc EXCEPT ![s] = "exit"]
    /\ UNCHANGED << appVars, chan, streamVars, frames, last_input, upd, hist,
                    ext_sent >>

\* AppSoundStream::audio_out: *output = buffer.clone().
AudioOut(s, out) ==
    /\ pc[s] = "audio_out"
    /\ output' = [output EXCEPT ![s] = buffer[s]]
    /\ out_len' = [out_len EXCEPT ![s] = Len(out)]
    /\ tick_log' = [tick_log EXCEPT ![s] = Append(@, "out")]
    /\ pc' = [pc EXCEPT ![s] = "exit"]
    /\ UNCHANGED << appVars, chan, streamVars, frames, last_input, upd, hist,
                    ext_sent >>

\* key_press where Escape toggles should_exit the way Space toggles should_print.
KeyPress_ToggleExit(s, k) ==
    /\ Running(s)
    /\ should_print' = [should_print EXCEPT ![s] =
                          IF k = "Space" THEN (IF @ THEN FALSE ELSE TRUE) ELSE @]
    /\ should_exit' = [should_exit EXCEPT ![s] =
                         IF k = "Escape" THEN (IF @ THEN FALSE ELSE TRUE) ELSE @]
    /\ hist' = [hist EXCEPT ![s] =
                    [@ EXCEPT !.escaped = @ \/ (k = "Escape"),
                              !.spaced = @ \/ (k = "Space"),
                              !.space_odd = IF k = "Space" THEN ~@ ELSE @]]
    /\ UNCHANGED << appVars, chan, pc, recv_chan, buffer, frames, obsVars,
                    ext_sent >>

\* key_press where every key ends the stream.
KeyPress_AnyKeyExits(s, k) ==
    /\ Running(s)
    /\ should_print' = [should_print EXCEPT ![s] =
                          IF k = "Space" THEN (IF @ THEN FALSE ELSE TRUE) ELSE @]
    /\ should_exit' = [should_exit EXCEPT ![s] = TRUE]
    /\ hist' = [hist EXCEPT ![s] =
                    [@ EXCEPT !.escaped = @ \/ (k = "Escape"),
                              !.spaced = @ \/ (k = "Space"),
                              !.space_odd = IF k = "Space" THEN ~@ ELSE @]]
    /\ UNCHANGED << appVars, chan, pc, recv_chan, buffer, frames, obsVars,
                    ext_sent >>

\* key_press where Space switches the printing on and never off.
KeyPress_SpaceSets(s, k) ==
    /\ Running(s)
    /\ should_print' = [should_print EXCEPT ![s] =
                          IF k = "Space" THEN TRUE ELSE @]
    /\ should_exit' = [should_exit EXCEPT ![s] = IF k = "Escape" THEN TRUE ELSE @]
    /\ hist' = [hist EXCEPT ![s] =
                    [@ EXCEPT !.escaped = @ \/ (k = "Escape"),
                              !.spaced = @ \/ (k = "Space"),
                              !.space_odd = IF k = "Space" THEN ~@ ELSE @]]
    /\ UNCHANGED << appVars, chan, pc, recv_chan, buffer, frames, obsVars,
                    ext_sent >>

\* AppSoundStream::key_press.
KeyPress(s, k) ==
    /\ Running(s)
    /\ should_print' = [should_print EXCEPT ![s] =
                          IF k = "Space" THEN (IF @ THEN FALSE ELSE TRUE) ELSE @]
    /\ should_exit' = [should_exit EXCEPT ![s] = IF k = "Escape" THEN TRUE ELSE @]
    /\ hist' = [hist EXCEPT ![s] =
                    [@ EXCEPT !.escaped = @ \/ (k = "Escape"),
                              !.spaced = @ \/ (k = "Space"),
                              !.space_odd = IF k = "Space" THEN ~@ ELSE @]]
    /\ UNCHANGED << appVars, chan, pc, recv_chan, buffer, frames, obsVars,
                    ext_sent >>

\* exit() that never reports the flag.
Exit_Never(s) == FALSE

\* AppSoundStream::exit.
Exit(s) == should_exit[s]

\* The driver's check of exit(), once per buffer: when it returns true run()
\* returns and the stream, with its Receiver, is destroyed.
ExitCheck(s) ==
    /\ pc[s] = "exit"
    /\ IF Exit(s)
       THEN /\ pc' = [pc EXCEPT ![s] = "done"]
            /\ chan' = IF recv_chan[s] = NoChan THEN chan
                       ELSE [chan EXCEPT ![recv_chan[s]].rx = FALSE]
       ELSE /\ pc' = [pc EXCEPT ![s] = "update"]
            /\ chan' = chan
    /\ tick_log' = [tick_log EXCEPT ![s] = Append(@, "exit")]
    /\ UNCHANGED << appVars, streamVars, frames, output, out_len, last_input,
                    upd, hist, ext_sent >>

\* One step of the tick of loop s, as the driver sequences it.
Tick(s) ==
    \/ \E dt \in DtValues : Update(s, dt)
    \/ \E input \in Frames(frames[s]) : AudioIn(s, input)
    \/ NoInput(s)
    \/ AudioOut(s, Zeros(frames[s]))
    \/ ExitCheck(s)

StreamKey == \E s \in Streams, k \in Keys : KeyPress(s, k)

StreamTick == \E s \in Streams : Tick(s)

\* --------------------------------------------------------- specification
Next ==
    \/ GameLoad
    \/ AppKeyPress
    \/ AppDrop
    \/ StreamTick
    \/ StreamKey

Spec == Init /\ [][Next]_vars

\* ------------------------------------------- a stream driven by its owner
\* AppSoundStream::new is public: a caller makes the channel itself, keeps the
\* Sender, and constructs the stream on Some(recv) or on None.
InitDirect ==
    /\ app_pc = "running"
    /\ kill_chan = NoChan
    /\ game_key = ""
    /\ chan = [s \in Streams |->
                IF s = 1 THEN NewChan
                ELSE [queue |-> <<>>, tx |-> FALSE, rx |-> FALSE]]
    /\ pc = [s \in Streams |-> IF s = 1 THEN "update" ELSE "idle"]
    /\ recv_chan \in {[s \in Streams |-> IF s = 1 THEN r ELSE NoChan] : r \in {NoChan, 1}}
    /\ should_exit = [s \in Streams |-> FALSE]
    /\ should_print = [s \in Streams |-> FALSE]
    /\ buffer = [s \in Streams |-> <<>>]
    /\ frames \in {[s \in Streams |-> IF s = 1 THEN n ELSE 1] : n \in 1..MaxFrames}
    /\ output = [s \in Streams |-> NoFrame]
    /\ out_len = [s \in Streams |-> 0]
    /\ last_input = [s \in Streams |-> NoFrame]
    /\ upd = [s \in Streams |-> NoUpd]
    /\ tick_log = [s \in Streams |-> <<>>]
    /\ hist = [s \in Streams |-> NoHist]
    /\ ext_sent = <<>>

\* Sender::send(b) on the kept Sender.
DirectSend(b) ==
    /\ app_pc = "running"
    /\ chan[1].tx
    /\ Len(ext_sent) < MaxSend
    /\ IF SendOk(1)
       THEN /\ chan' = [chan EXCEPT ![1].queue = Append(@, b)]
            /\ ext_sent' = Append(ext_sent, b)
            /\ hist' = [hist EXCEPT ![1].sent = @ + 1]
            /\ app_pc' = app_pc
       ELSE /\ app_pc' = "failed"
            /\ chan' = [chan EXCEPT ![1].tx = FALSE]
            /\ ext_sent' = ext_sent
            /\ hist' = hist
    /\ UNCHANGED << kill_chan, game_key, pc, streamVars, frames, obsVars >>

\* The kept Sender goes out of scope: the channel is disconnected.
DirectHangUp ==
    /\ app_pc = "running"
    /\ chan[1].tx
    /\ chan' = [chan EXCEPT ![1].tx = FALSE]
    /\ UNCHANGED << appVars, pc, streamVars, frames, obsVars, hist, ext_sent >>

NextDirect ==
    \/ \E b \in BOOLEAN : DirectSend(b)
    \/ DirectHangUp
    \/ StreamTick
    \/ StreamKey

SpecDirect == InitDirect /\ [][NextDirect]_vars

\* ------------------------------------------------- the rate line by itself
RateFrames == {64, 256}
RateDts    == {0, 1, 1333333, 5333333, 5804988}

\* One stream, printing or not, ticked with the dt values above.
InitRate ==
    /\ app_pc = "running"
    /\ kill_chan = NoChan
    /\ game_key = ""
    /\ chan = [s \in Streams |->
                IF s = 1 THEN NewChan
                ELSE [queue |-> <<>>, tx |-> FALSE, rx |-> FALSE]]
    /\ pc = [s \in Streams |-> IF s = 1 THEN "update" ELSE "idle"]
    /\ recv_chan = [s \in Streams |-> IF s = 1 THEN 1 ELSE NoChan]
    /\ should_exit = [s \in Streams |-> FALSE]
    /\ should_print = [s \in Streams |-> FALSE]
    /\ buffer = [s \in Streams |-> <<>>]
    /\ frames \in {[s \in Streams |-> IF s = 1 THEN n ELSE 1] : n \in RateFrames}
    /\ output = [s \in Streams |-> NoFrame]
    /\ out_len = [s \in Streams |-> 0]
    /\ last_input = [s \in Streams |-> NoFrame]
    /\ upd = [s \in Streams |-> NoUpd]
    /\ tick_log = [s \in Streams |-> <<>>]
    /\ hist = [s \in Streams |-> NoHist]
    /\ ext_sent = <<>>

NextRate ==
    \/ \E dt \in RateDts : Update(1, dt)
    \/ NoInput(1)
    \/ AudioOut(1, Zeros(frames[1]))
    \/ ExitCheck(1)
    \/ \E k \in Keys : KeyPress(1, k)

SpecRate == InitRate /\ [][NextRate]_vars

\* ------------------------------------------------ load called more than once
\* App::load is a public trait method: a further call on a running App makes a
\* further channel and loop, and overwrites kill_chan.
AppReload ==
    /\ app_pc = "running"
    /\ \E s \in Streams \ {1} : Load(s, 1)

\* The tick of loop s on one input frame and one dt.
TickPlain(s) ==
    \/ \E dt \in DtValues \ {0} : Update(s, dt)
    \/ AudioIn(s, Zeros(frames[s]))
    \/ AudioOut(s, Zeros(frames[s]))
    \/ ExitCheck(s)

NextReload ==
    \/ app_pc = "new" /\ Load(1, 1)
    \/ AppReload
    \/ AppDrop
    \/ \E s \in Streams : TickPlain(s)
    \/ \E s \in Streams : KeyPress(s, "Escape")

SpecReload == Init /\ [][NextReload]_vars

\* The driver keeps invoking the tick of every running loop.
FairSpec == Spec /\ \A s \in Streams : WF_vars(Tick(s))

\* ================================================================ claims

\* C1 (Destroy-triggers-stop): once the App that loaded the audio loop has been
\* destroyed, a Stop (true) sits on the loop's channel until the loop's next
\* update(), and after the first update() that runs after the drop should_exit
\* is true.
C1_DestroyTriggersStop ==
    \A s \in Streams :
        (app_pc = "dropped" /\ kill_chan = s) =>
            /\ ~hist[s].upd_after_drop => chan[s].queue = <<TRUE>>
            /\ hist[s].upd_after_drop => should_exit[s]

C1_Witness ==
    /\ app_pc = "dropped"
    /\ kill_chan = 1
    /\ hist[1].upd_after_drop
    /\ hist[1].recvd
    /\ ~hist[1].escaped
    /\ should_exit[1]

\* After the last audio_out and before the next audio_in.
AfterOut(s) == pc[s] \in {"exit", "update", "audio_in", "done"} /\ output[s] # NoFrame

\* C2 (Loopback identity): whenever audio_out has run after at least one
\* audio_in, the output it produced equals, in length and values, the argument
\* of the most recent audio_in, whatever update() and key_press() did in between
\* and whatever should_print and should_exit are.
C2_LoopbackIdentity ==
    \A s \in Streams :
        (AfterOut(s) /\ last_input[s] # NoFrame) => output[s] = last_input[s]

C2_Witness ==
    /\ pc[1] = "exit"
    /\ last_input[1] = <<1, 0>>
    /\ output[1] = <<1, 0>>
    /\ should_print[1]
    /\ should_exit[1]
    /\ hist[1].recvd

\* C3 (First-tick silence): when audio_out runs before any audio_in, the output
\* is all-zero and as long as the output frame the driver handed in.
C3_FirstTickSilence ==
    \A s \in Streams :
        (AfterOut(s) /\ last_input[s] = NoFrame) => output[s] = Zeros(out_len[s])

\* C4 (should_exit is monotonic): should_exit starts false and no step of the
\* App or of the audio loop ever takes it from true back to false.
C4_ShouldExitMonotonic ==
    /\ \A s \in Streams : ~should_exit[s]
    /\ [][\A s \in Streams : should_exit[s] => should_exit'[s]]_vars

\* A Stop was received while Escape had been pressed too: both paths have set it.
C4_Witness ==
    /\ should_exit[1]
    /\ hist[1].recvd
    /\ hist[1].escaped
    /\ hist[1].spaced
    /\ pc[1] = "done"

\* C5 (Sending on a closed channel is harmless): a send after the audio loop has
\* released its Receiver never leaves the sending context failed.
C5_SendOnClosedHarmless == app_pc # "failed"

\* C6 (Termination after teardown): with the driver ticking, once the App that
\* loaded the loop is destroyed the loop reaches should_exit, exit() returns
\* true and the loop is done; a loop that is done runs no further tick.
C6_TerminationAfterTeardown ==
    /\ \A s \in Streams :
          (app_pc \in {"dropped", "failed"} /\ kill_chan = s)
              ~> (pc[s] = "done" /\ should_exit[s])
    /\ [][\A s \in Streams : pc[s] = "done" => UNCHANGED << pc[s], upd[s], output[s] >>]_vars

C6_Witness ==
    /\ app_pc = "dropped"
    /\ kill_chan = 1
    /\ pc[1] = "done"
    /\ hist[1].recvd
    /\ ~hist[1].escaped

\* C7 (Full drain per tick): when the drain step of a tick ends, the channel
\* holds none of the commands that were enqueued before it began.
C7_FullDrain ==
    [][\A s \in Streams :
          (pc[s] = "update" /\ pc'[s] = "audio_in" /\ recv_chan[s] # NoChan)
              => chan'[recv_chan[s]].queue = <<>>]_vars

\* The commands of C8 as the bool payloads a Sender<bool> can carry.
Stop   == TRUE
Toggle == FALSE

\* C8 (Command FIFO): with [Toggle, Toggle, Stop] sent in that order and no key
\* pressed on the audio thread, the loop's flags are those of applying, in order,
\* the commands drained so far: should_print after exactly one, should_exit
\* only after all three.
C8_CommandFIFO ==
    \A s \in Streams :
        (/\ recv_chan[s] # NoChan
         /\ ext_sent = << Toggle, Toggle, Stop >>
         /\ ~hist[s].escaped
         /\ ~hist[s].spaced)
        => LET k == 3 - Len(chan[recv_chan[s]].queue) IN
           /\ should_print[s] = (k = 1)
           /\ should_exit[s] = (k = 3)

\* C9 (Zero-duration guard): an update() with should_print set and dt = 0 emits
\* no rate value.
C9_ZeroDurationGuard ==
    \A s \in Streams :
        (upd[s].ran /\ upd[s].printing /\ upd[s].dt = 0) => upd[s].printed = NoPrint

\* C10 (Non-blocking tick): update() can always run when the tick reaches it,
\* message or no message; on an empty or disconnected channel it leaves
\* should_exit, should_print and buffer as they were; and every update() hands
\* the tick on to audio_in/audio_out.
C10_NonBlockingTick ==
    /\ [](\A s \in Streams :
            pc[s] = "update" => \A dt \in DtValues : ENABLED Update(s, dt))
    /\ [][\A s \in Streams :
            (pc[s] = "update" /\ pc'[s] # "update") =>
                /\ pc'[s] = "audio_in"
                /\ (recv_chan[s] = NoChan \/ chan[recv_chan[s]].queue = <<>>) =>
                       /\ should_exit'[s] = should_exit[s]
                       /\ should_print'[s] = should_print[s]
                       /\ buffer'[s] = buffer[s]]_vars

\* An update() has just run on a channel that is empty and disconnected.
C10_Witness ==
    /\ pc[1] = "audio_in"
    /\ upd[1].ran
    /\ recv_chan[1] = 1
    /\ chan[1].queue = <<>>
    /\ ~chan[1].tx
    /\ ~hist[1].recvd
    /\ ~should_exit[1]
    /\ ext_sent = <<>>

\* C11 (Exclusive ownership of audio state): every foreground step (load,
\* App::key_press, drop) leaves buffer, should_exit and should_print of every
\* loop unchanged, and moves no running loop and none of its inputs or outputs:
\* what it changes besides the App itself is the channel. So the three fields
\* change only in steps of the audio context.
C11_ExclusiveOwnership ==
    [][(appVars' # appVars) =>
          /\ UNCHANGED << buffer, should_exit, should_print, obsVars >>
          /\ \A s \in Streams : pc[s] # "idle" => pc'[s] = pc[s]]_vars

\* Load, a Space on the game thread and the drop have all acted,
\* and the loop's flags are still as the audio thread left them.
C11_Witness ==
    /\ app_pc = "dropped"
    /\ game_key = "Space"
    /\ ~hist[1].spaced
    /\ ~should_print[1]
    /\ ~should_exit[1]
    /\ buffer[1] = <<1>>

\* C12 (At most one Stop per controller): no channel ever has more than one
\* message put on it by the App.
C12_AtMostOneStop == \A s \in Streams : hist[s].sent <= 1

C12_Witness ==
    /\ app_pc = "dropped"
    /\ game_key = "Escape"
    /\ hist[1].sent = 1
    /\ hist[1].recvd

\* C13 (Foreground quit/toggle mapping): after App::key_press for the quit key
\* (Escape) or the toggle key (Space) a command has been put on the channel.
C13_ForegroundMapping ==
    (app_pc = "running" /\ game_key \in {"Escape", "Space"})
        => hist[kill_chan].sent >= 1

\* C16 (No orphaned audio loop): once the App has been destroyed, every loop
\* that a call of load spawned has had a Stop put on its own channel.
C16_NoOrphanedLoop ==
    \A s \in Streams :
        (app_pc = "dropped" /\ pc[s] # "idle") => hist[s].sent >= 1

\* |r - khz * 1000| <= 0.1% of khz * 1000, for r = n / d * 10^e with e >= 3.
Within01Percent(r, khz) ==
    LET a == r.n * 10^(r.e - 3)
        b == khz * r.d
        diff == IF a > b THEN a - b ELSE b - a
    IN  diff * 1000 <= b

\* C14 (Rate calculation): for dt > 0 the value update() prints equals
\* frames * 1e9 / dt, and for frames = 256, dt = 5,333,333 it is within 0.1% of
\* 48000.
C14_RateCalculation ==
    \A s \in Streams :
        (upd[s].ran /\ upd[s].printing /\ upd[s].dt > 0) =>
            LET r == upd[s].printed.val IN
            /\ upd[s].printed.kind = "num"
            /\ r.e = 9
            /\ r.n * upd[s].dt = frames[s] * r.d
            /\ (frames[s] = 256 /\ upd[s].dt = 5333333) => Within01Percent(r, 48)

C14_Witness ==
    /\ upd[1].ran
    /\ upd[1].printing
    /\ upd[1].dt = 5333333
    /\ frames[1] = 256
    /\ upd[1].printed = Num(Rat(256, 5333333, 9))

\* The place of each step in the order the specification gives, and in the
\* order update() has them.
RankClaimed(e) ==
    CASE e = "drain" -> 1 [] e = "in" -> 2 [] e = "out" -> 3
      [] e = "rate" -> 4 [] e = "exit" -> 5

RankCoded(e) ==
    CASE e = "rate" -> 1 [] e = "drain" -> 2 [] e = "in" -> 3
      [] e = "out" -> 4 [] e = "exit" -> 5

\* A loop that has stopped did so at the end of a tick that polled the channel
\* and produced its output.
StopAtTickEnd(s) ==
    pc[s] = "done" =>
        LET L == tick_log[s] IN
        /\ Len(L) >= 3
        /\ L[Len(L)] = "exit"
        /\ L[Len(L) - 1] = "out"
        /\ \E i \in 1..Len(L) : L[i] = "drain"

C17_NoSpuriousTermination ==
    \A s \in Streams : should_exit[s] => (hist[s].recvd \/ hist[s].escaped)

\* Set by a received message alone, with other keys pressed and the Sender gone.
C17_Witness ==
    /\ should_exit[1]
    /\ hist[1].recvd
    /\ ~hist[1].escaped
    /\ hist[1].spaced
    /\ ~chan[1].tx
    /\ buffer[1] # <<>>

\* C18 (Payload-independent stop): an update() takes at most one message off
\* the channel, the oldest; whatever its payload it sets should_exit; and it
\* leaves should_print and buffer as they were.
C18_PayloadIndependentStop ==
    [][\A s \in Streams :
          (pc[s] = "update" /\ pc'[s] # "update" /\ recv_chan[s] # NoChan) =>
              LET q  == chan[recv_chan[s]].queue
                  q2 == chan'[recv_chan[s]].queue
              IN  /\ Len(q2) >= Len(q) - 1
                  /\ Len(q) > 0 => (q2 = Tail(q) /\ should_exit'[s])
                  /\ should_print'[s] = should_print[s]
                  /\ buffer'[s] = buffer[s]]_vars

\* A false payload was received, a later message is still queued, and
\* should_exit is set.
C18_Witness ==
    /\ pc[1] = "audio_in"
    /\ ext_sent = <<FALSE, TRUE>>
    /\ chan[1].queue = <<TRUE>>
    /\ hist[1].recvd
    /\ ~hist[1].escaped
    /\ should_exit[1]

\* C19 (Audio-thread key handling): key_press(Space) flips should_print and
\* leaves should_exit and buffer; key_press(Escape) sets should_exit and leaves
\* should_print and buffer; any other key changes none of the three. So
\* should_print is the parity of the Space presses: two presses restore it.
C19_AudioKeyHandling ==
    /\ [](\A s \in Streams : should_print[s] = hist[s].space_odd)
    /\ [][\A s \in Streams, k \in Keys :
            KeyPress(s, k) =>
                /\ buffer'[s] = buffer[s]
                /\ should_print'[s] = IF k = "Space" THEN ~should_print[s]
                                      ELSE should_print[s]
                /\ should_exit'[s] = IF k = "Escape" THEN TRUE
                                     ELSE should_exit[s]]_vars

\* Space twice (printing off again) and then Escape.
C19_Witness ==
    /\ hist[1].spaced
    /\ ~hist[1].space_odd
    /\ ~should_print[1]
    /\ hist[1].escaped
    /\ should_exit[1]
    /\ ~hist[1].recvd
    /\ buffer[1] # <<>>

====
